---- MODULE Spec2Model ----
(***************************************************************************)
(* Bike-share station traffic map (src/map.js): the minute-of-day bucket   *)
(* tables, the windowed trip query, the per-station aggregation and the    *)
(* radius / flow scales, as a state machine driven by the map's load       *)
(* handler and the time slider's input handler.                            *)
(***************************************************************************)
EXTENDS Integers, Sequences, FiniteSets, TLC

\* ------------------------------------------------------------------ bounds

\* Largest number of rows of the trips CSV.
MaxTrips == 2

\* ------------------------------------------------------- program constants

\* The number of minute-of-day buckets of each table.
MinutesPerDay == 1440

\* Half the width of the time window, in minutes.
WindowMinutes == 60

\* The slider value that means "any time".
AnyTime == -1

\* What Date.prototype.getHours / getMinutes return on an Invalid Date, and
\* what arithmetic on it yields.  It is no index of any array.
NaN == 0 - 1000000

\* ------------------------------------------------------------------ inputs

\* A timestamp field of the CSV: a well-formed text with a wall-clock hour
\* and minute, or text the Date parser cannot read.
Stamp(h, mi) == [ok |-> TRUE, hours |-> h, minutes |-> mi]
Garbage == [ok |-> FALSE, hours |-> 0, minutes |-> 0]

\* The rows a trips CSV is drawn from.
TripRows ==
  { [start_station_id |-> "A", end_station_id |-> "B",
     started_at |-> Stamp(7, 20), ended_at |-> Stamp(9, 20)],
    [start_station_id |-> "B", end_station_id |-> "A",
     started_at |-> Stamp(23, 50), ended_at |-> Stamp(0, 50)],
    [start_station_id |-> "B", end_station_id |-> "X",
     started_at |-> Stamp(8, 5), ended_at |-> Stamp(8, 25)],
    [start_station_id |-> "A", end_station_id |-> "A",
     started_at |-> Stamp(23, 59), ended_at |-> Stamp(0, 0)],
    [start_station_id |-> "A", end_station_id |-> "B",
     started_at |-> Garbage, ended_at |-> Stamp(8, 20)],
    [start_station_id |-> "B", end_station_id |-> "A",
     started_at |-> Stamp(8, 10), ended_at |-> Garbage] }

\* All CSV files of at most MaxTrips rows.
CsvFiles == UNION { [1..n -> TripRows] : n \in 0..MaxTrips }

\* The station list of the stations JSON: no derived field yet.
StationsJson == << [short_name |-> "A"], [short_name |-> "B"] >>

\* The positions the time slider is moved to.
SliderValues == {AnyTime, 0, 30, 110, 500, 600, 1370, 1439}

\* ------------------------------------------------------------------- state

VARIABLES
  pc,                  \* where the load handler ended: "init", "ready", "failed"
  csvFile,             \* the trips CSV the load handler fetched
  sliderMoved,         \* whether the slider's input handler has run
  timeFilter,          \* the global time filter
  departuresByMinute,  \* the 1440 buckets of trips, by start minute
  arrivalsByMinute,    \* the 1440 buckets of trips, by end minute
  trips,               \* the trips d3.csv resolved to (<<>> when it rejected)
  stationsData,        \* the station objects, mutated in place
  stations,            \* the array of the first aggregation: references
  radiusDomain,        \* radiusScale.domain()
  radiusRange,         \* radiusScale.range()
  circles              \* what each circle was last drawn with

vars == << pc, csvFile, sliderMoved, timeFilter, departuresByMinute,
           arrivalsByMinute, trips, stationsData, stations, radiusDomain,
           radiusRange, circles >>

\* ----------------------------------------------------------------- helpers

\* new Date(text): an Invalid Date when the text cannot be parsed.
newDate(text) ==
  IF text.ok THEN [valid |-> TRUE, hours |-> text.hours, minutes |-> text.minutes]
             ELSE [valid |-> FALSE, hours |-> NaN, minutes |-> NaN]

\* Number arithmetic of the two shapes used: NaN is absorbing.
Times(a, b) == IF a = NaN \/ b = NaN THEN NaN ELSE a * b
Plus(a, b) == IF a = NaN \/ b = NaN THEN NaN ELSE a + b

minutesSinceMidnight(date) == Plus(Times(date.hours, 60), date.minutes)

\* An array of buckets is kept as its length and the buckets that hold a
\* trip, by index from 0; every other element is the empty bucket [].
EmptyTable == [length |-> MinutesPerDay, at |-> [k \in {} |-> << >>]]

\* Whether tripsByMinute[index] is an element of the array (not undefined).
IsMinuteIndex(tripsByMinute, index) == index \in 0..(tripsByMinute.length - 1)

\* tripsByMinute[minute], for a minute that is an index of the array.
bucketAt(tripsByMinute, minute) ==
  IF minute \in DOMAIN tripsByMinute.at THEN tripsByMinute.at[minute] ELSE << >>

\* Array.prototype.slice(lo, hi): elements lo .. hi - 1, indexed from 0.
slice(buckets, lo, hi) ==
  LET kept == {k \in DOMAIN buckets.at : lo <= k /\ k < hi}
  IN [length |-> IF hi > lo THEN hi - lo ELSE 0,
      at |-> [k \in {j - lo : j \in kept} |-> buckets.at[k + lo]]]

\* Array.prototype.concat: the elements of one array, then those of the other.
concat(before, after) ==
  [length |-> before.length + after.length,
   at |-> [k \in DOMAIN before.at \cup {j + before.length : j \in DOMAIN after.at} |->
             IF k < before.length THEN before.at[k]
             ELSE after.at[k - before.length]]]

\* The buckets at the indices ks of an array, concatenated by ascending index.
RECURSIVE flatOver(_, _)
flatOver(buckets, ks) ==
  IF ks = {} THEN << >>
  ELSE LET k == CHOOSE x \in ks : \A y \in ks : x <= y
       IN buckets.at[k] \o flatOver(buckets, ks \ {k})

\* Array.prototype.flat() of an array of buckets: empty buckets add nothing.
flat(buckets) == flatOver(buckets, DOMAIN buckets.at)

\* filterByMinute without the branch for a window that wraps past midnight.
filterByMinuteNoWrap(tripsByMinute, minute) ==
  IF minute = AnyTime
  THEN flat(tripsByMinute)
  ELSE LET minMinute == (minute - WindowMinutes + MinutesPerDay) % MinutesPerDay
           maxMinute == (minute + WindowMinutes) % MinutesPerDay
       IN flat(slice(tripsByMinute, minMinute, maxMinute))

\* filterByMinute without the test for the "any time" value.
filterByMinuteNoSentinel(tripsByMinute, minute) ==
  LET minMinute == (minute - WindowMinutes + MinutesPerDay) % MinutesPerDay
      maxMinute == (minute + WindowMinutes) % MinutesPerDay
  IN IF minMinute > maxMinute
     THEN flat(concat(slice(tripsByMinute, minMinute, MinutesPerDay),
                      slice(tripsByMinute, 0, maxMinute)))
     ELSE flat(slice(tripsByMinute, minMinute, maxMinute))

filterByMinute(tripsByMinute, minute) ==
  IF minute = AnyTime
  THEN flat(tripsByMinute)
  ELSE LET minMinute == (minute - WindowMinutes + MinutesPerDay) % MinutesPerDay
           maxMinute == (minute + WindowMinutes) % MinutesPerDay
       IN IF minMinute > maxMinute
          THEN LET beforeMidnight == slice(tripsByMinute, minMinute, MinutesPerDay)
                   afterMidnight == slice(tripsByMinute, 0, maxMinute)
               IN flat(concat(beforeMidnight, afterMidnight))
          ELSE flat(slice(tripsByMinute, minMinute, maxMinute))

\* The trip object the row callback makes of row i of the CSV.
rowTrip(row, i) ==
  [row |-> i,
   start_station_id |-> row.start_station_id,
   end_station_id |-> row.end_station_id,
   started_at |-> newDate(row.started_at),
   ended_at |-> newDate(row.ended_at)]

\* tripsByMinute[index].push(trip), for an index that names a bucket.
push(tripsByMinute, index, trip) ==
  [tripsByMinute EXCEPT
     !.at = (index :> Append(bucketAt(tripsByMinute, index), trip)) @@ @]

\* The row callback pushing the arrival to the bucket of the start minute.
bucketTripByStart(acc, trip) ==
  LET startedMinutes == minutesSinceMidnight(trip.started_at)
      endedMinutes == minutesSinceMidnight(trip.ended_at)
  IN IF ~IsMinuteIndex(acc.departures, startedMinutes)
     THEN [acc EXCEPT !.threw = TRUE]
     ELSE IF ~IsMinuteIndex(acc.arrivals, endedMinutes)
     THEN [acc EXCEPT !.threw = TRUE,
                      !.departures = push(@, startedMinutes, trip)]
     ELSE [acc EXCEPT !.departures = push(@, startedMinutes, trip),
                      !.arrivals = push(@, startedMinutes, trip),
                      !.trips = Append(@, trip)]

\* The row callback on one row: tripsByMinute[NaN] is undefined, and pushing
\* to it throws, after what was already pushed.
bucketTrip(acc, trip) ==
  LET startedMinutes == minutesSinceMidnight(trip.started_at)
      endedMinutes == minutesSinceMidnight(trip.ended_at)
  IN IF ~IsMinuteIndex(acc.departures, startedMinutes)
     THEN [acc EXCEPT !.threw = TRUE]
     ELSE IF ~IsMinuteIndex(acc.arrivals, endedMinutes)
     THEN [acc EXCEPT !.threw = TRUE,
                      !.departures = push(@, startedMinutes, trip)]
     ELSE [acc EXCEPT !.departures = push(@, startedMinutes, trip),
                      !.arrivals = push(@, endedMinutes, trip),
                      !.trips = Append(@, trip)]

\* d3.csv with the row callback, over the first n rows: it stops at the
\* first row whose callback throws.
RECURSIVE loadTrips(_, _, _)
loadTrips(csv, n, empty) ==
  IF n = 0 THEN empty
  ELSE LET acc == loadTrips(csv, n - 1, empty)
       IN IF acc.threw THEN acc ELSE bucketTrip(acc, rowTrip(csv[n], n))

\* d3.rollup(values, v => v.length, d => d[key]) over the first n values.
RECURSIVE rollup(_, _, _)
rollup(values, key, n) ==
  IF n = 0 THEN [k \in {} |-> 0]
  ELSE LET counts == rollup(values, key, n - 1)
           k == values[n][key]
       IN IF k \in DOMAIN counts
          THEN [counts EXCEPT ![k] = @ + 1]
          ELSE counts @@ (k :> 1)

\* counts.get(id) ?? 0
getOrZero(counts, id) == IF id \in DOMAIN counts THEN counts[id] ELSE 0

\* The map callback adding the counts to the fields the object already has.
updateStationAccumulating(station, arrivalsCount, departuresCount) ==
  LET had(field) == IF field \in DOMAIN station THEN station[field] ELSE 0
  IN [short_name |-> station.short_name,
      arrivals |-> had("arrivals") + arrivalsCount,
      departures |-> had("departures") + departuresCount,
      totalTraffic |-> had("totalTraffic") + arrivalsCount + departuresCount]

\* The station object after the assignments of the map callback.
updateStation(station, arrivalsCount, departuresCount) ==
  [short_name |-> station.short_name,
   arrivals |-> arrivalsCount,
   departures |-> departuresCount,
   totalTraffic |-> arrivalsCount + departuresCount]

\* computeStationTraffic grouping the arrivals by start_station_id too.
computeStationTrafficByStart(departureTable, arrivalTable, stationObjects, currentTimeFilter) ==
  LET departureTrips == filterByMinute(departureTable, currentTimeFilter)
      arrivalTrips == filterByMinute(arrivalTable, currentTimeFilter)
      departures == rollup(departureTrips, "start_station_id", Len(departureTrips))
      arrivals == rollup(arrivalTrips, "start_station_id", Len(arrivalTrips))
  IN [i \in 1..Len(stationObjects) |->
        updateStation(stationObjects[i],
                      getOrZero(arrivals, stationObjects[i].short_name),
                      getOrZero(departures, stationObjects[i].short_name))]

\* computeStationTraffic(stations, filter), with the two global bucket
\* tables it reads as parameters: the objects given are the objects returned,
\* with their fields assigned.
computeStationTraffic(departureTable, arrivalTable, stationObjects, currentTimeFilter) ==
  LET departureTrips == filterByMinute(departureTable, currentTimeFilter)
      arrivalTrips == filterByMinute(arrivalTable, currentTimeFilter)
      departures == rollup(departureTrips, "start_station_id", Len(departureTrips))
      arrivals == rollup(arrivalTrips, "end_station_id", Len(arrivalTrips))
  IN [i \in 1..Len(stationObjects) |->
        updateStation(stationObjects[i],
                      getOrZero(arrivals, stationObjects[i].short_name),
                      getOrZero(departures, stationObjects[i].short_name))]

\* d3.max(stations, d => d.totalTraffic); undefined (NaN here) of no station.
maxTotalTraffic(stationObjects) ==
  LET totals == {stationObjects[i].totalTraffic : i \in 1..Len(stationObjects)}
  IN IF totals = {} THEN NaN
     ELSE CHOOSE m \in totals : \A t \in totals : t <= m

\* d3.scaleSqrt with domain [0, d1] and range [r0, r1], at x: the radius is
\* r0 + t * (r1 - r0), where t = sqrt(x) / sqrt(d1), and t = 1/2 for the
\* degenerate domain d1 = 0.  The value is kept exact: tSquared is the
\* fraction <<numerator, denominator>> of t * t.
scaleSqrt(domain, range, x) ==
  [r0 |-> range[1], r1 |-> range[2],
   tSquared |-> IF domain[2] - domain[1] = 0 THEN <<1, 4>>
                ELSE IF x = 0 THEN <<0, 1>>
                ELSE IF x = domain[2] THEN <<1, 1>>
                ELSE <<x, domain[2]>>]

\* d3.scaleQuantize().domain([0, 1]).range([0, 0.5, 1]) at the departure
\* ratio (0 of no traffic): the index of the level, thresholds 1/3 and 2/3.
stationFlow(departures, totalTraffic) ==
  IF totalTraffic <= 0 THEN 0
  ELSE IF 3 * departures < totalTraffic THEN 0
  ELSE IF 3 * departures < 2 * totalTraffic THEN 1
  ELSE 2

\* attr('r') and style('--departure-ratio') of every circle.
drawCircles(stationObjects, domain, range) ==
  [i \in 1..Len(stationObjects) |->
     [short_name |-> stationObjects[i].short_name,
      r |-> scaleSqrt(domain, range, stationObjects[i].totalTraffic),
      departureRatio |-> stationFlow(stationObjects[i].departures,
                                     stationObjects[i].totalTraffic)]]

\* The range updateScatterPlot gives the radius scale.
rangeFor(currentTimeFilter) ==
  IF currentTimeFilter = AnyTime THEN <<0, 25>> ELSE <<3, 50>>

\* updateScatterPlot setting the scale's domain from the filtered stations.
updateScatterPlotRecalibrated(departureTable, arrivalTable, stationObjects, domain, currentTimeFilter) ==
  LET filteredStations == computeStationTraffic(departureTable, arrivalTable,
                                                stationObjects, currentTimeFilter)
      range == rangeFor(currentTimeFilter)
      recalibrated == <<0, maxTotalTraffic(filteredStations)>>
  IN [stationsData |-> filteredStations,
      radiusDomain |-> recalibrated,
      radiusRange |-> range,
      circles |-> drawCircles(filteredStations, recalibrated, range)]

\* updateScatterPlot(filter): the station objects, the radius scale and the
\* circles it leaves.  It sets the scale's range and never its domain.
updateScatterPlot(departureTable, arrivalTable, stationObjects, domain, currentTimeFilter) ==
  LET filteredStations == computeStationTraffic(departureTable, arrivalTable,
                                                stationObjects, currentTimeFilter)
      range == rangeFor(currentTimeFilter)
  IN [stationsData |-> filteredStations,
      radiusDomain |-> domain,
      radiusRange |-> range,
      circles |-> drawCircles(filteredStations, domain, range)]

\* ----------------------------------------------------------------- actions

Init ==
  /\ pc = "init"
  /\ csvFile = << >>
  /\ sliderMoved = FALSE
  /\ timeFilter = AnyTime
  /\ departuresByMinute = EmptyTable
  /\ arrivalsByMinute = EmptyTable
  /\ trips = << >>
  /\ stationsData = << >>
  /\ stations = << >>
  /\ radiusDomain = <<0, 1>>
  /\ radiusRange = <<0, 25>>
  /\ circles = << >>

\* updateTimeDisplay with the slider at sliderValue, on the station objects
\* and the scale domain it finds.
updateTimeDisplay(departureTable, arrivalTable, stationObjects, domain, sliderValue) ==
  LET plot == updateScatterPlot(departureTable, arrivalTable, stationObjects,
                                domain, sliderValue)
  IN /\ timeFilter' = sliderValue
     /\ stationsData' = plot.stationsData
     /\ radiusDomain' = plot.radiusDomain
     /\ radiusRange' = plot.radiusRange
     /\ circles' = plot.circles

\* The map's load handler on the stations JSON and a trips CSV, with the
\* slider at sliderValue: it returns early when a row callback throws.
\* Otherwise it aggregates for "any time", sets the radius scale's domain
\* from that, and ends with updateTimeDisplay(), which aggregates again for
\* the slider's value and redraws the circles the handler had just appended.
MapLoad(csv, sliderValue) ==
  /\ pc = "init"
  /\ csvFile' = csv
  /\ UNCHANGED sliderMoved
  /\ LET loaded == loadTrips(csv, Len(csv),
                             [threw |-> FALSE, departures |-> departuresByMinute,
                              arrivals |-> arrivalsByMinute, trips |-> << >>])
     IN /\ departuresByMinute' = loaded.departures
        /\ arrivalsByMinute' = loaded.arrivals
        /\ IF loaded.threw
           THEN /\ pc' = "failed"
                /\ stationsData' = StationsJson
                /\ UNCHANGED << timeFilter, trips, stations, radiusDomain,
                                radiusRange, circles >>
           ELSE /\ pc' = "ready"
                /\ trips' = loaded.trips
                /\ stations' = [i \in 1..Len(StationsJson) |-> i]
                /\ LET first == computeStationTraffic(loaded.departures,
                                  loaded.arrivals, StationsJson, AnyTime)
                   IN updateTimeDisplay(loaded.departures, loaded.arrivals, first,
                                        <<0, maxTotalTraffic(first)>>, sliderValue)

\* The slider's input event.
SliderInput(sliderValue) ==
  /\ pc = "ready"
  /\ sliderMoved' = TRUE
  /\ updateTimeDisplay(departuresByMinute, arrivalsByMinute, stationsData,
                       radiusDomain, sliderValue)
  /\ UNCHANGED << pc, csvFile, departuresByMinute, arrivalsByMinute, trips,
                  stations >>

Next ==
  \/ \E csv \in CsvFiles, v \in SliderValues : MapLoad(csv, v)
  \/ \E v \in SliderValues : SliderInput(v)

Spec == Init /\ [][Next]_vars

\* ------------------------------------------------------ what the claims use

\* How often a value occurs in a sequence.
Occurrences(seq, x) == Cardinality({j \in 1..Len(seq) : seq[j] = x})

NoDuplicates(seq) == \A j, k \in 1..Len(seq) : seq[j] = seq[k] => j = k

\* How far bucket b is from bucket from, walking circularly forward.
WalkOffset(from, b) == (b - from + 1440) % 1440

\* The minutes whose bucket holds a trip.
NonEmptyBuckets(table) == {b \in 0..1439 : bucketAt(table, b) # << >>}

\* The buckets bs of a table, concatenated in the order a walk from `from` meets them.
RECURSIVE ConcatInWalkOrder(_, _, _)
ConcatInWalkOrder(table, from, bs) ==
  IF bs = {} THEN << >>
  ELSE LET b == CHOOSE x \in bs :
                  \A y \in bs : WalkOffset(from, x) <= WalkOffset(from, y)
       IN bucketAt(table, b) \o ConcatInWalkOrder(table, from, bs \ {b})

\* The trips of the `width` buckets met walking forward from bucket `from`.
WalkedTrips(table, nonEmpty, from, width) ==
  ConcatInWalkOrder(table, from,
                    {b \in nonEmpty : WalkOffset(from, b) < width})

Tables == << departuresByMinute, arrivalsByMinute >>

C2_WindowHas121Buckets ==
  pc = "ready" =>
    \A t \in 1..2 :
      LET table == Tables[t]
          nonEmpty == NonEmptyBuckets(table)
      IN \A m \in 0..1439 :
           filterByMinute(table, m)
             = WalkedTrips(table, nonEmpty, (m - 60 + 1440) % 1440, 121)

\* The minute of the day a parsed timestamp shows.
MinuteOf(date) == date.hours * 60 + date.minutes

RECURSIVE SumOfLengths(_, _)
SumOfLengths(table, bs) ==
  IF bs = {} THEN 0
  ELSE LET b == CHOOSE x \in bs : TRUE
       IN Len(bucketAt(table, b)) + SumOfLengths(table, bs \ {b})

\* C3: once the trips are loaded and bucketed, every trip is in the bucket of
\* its start minute of departuresByMinute and in no other, once, likewise in
\* the bucket of its end minute of arrivalsByMinute, and the bucket lengths
\* of each table add up to the number of trips, one per row of the CSV.
C3_BucketCompleteness ==
  pc = "ready" =>
    /\ Len(trips) = Len(csvFile)
    /\ \A j \in 1..Len(trips) : \A b \in 0..1439 :
         /\ Occurrences(bucketAt(departuresByMinute, b), trips[j])
              = (IF b = MinuteOf(trips[j].started_at) THEN 1 ELSE 0)
         /\ Occurrences(bucketAt(arrivalsByMinute, b), trips[j])
              = (IF b = MinuteOf(trips[j].ended_at) THEN 1 ELSE 0)
    /\ SumOfLengths(departuresByMinute, NonEmptyBuckets(departuresByMinute))
         = Len(trips)
    /\ SumOfLengths(arrivalsByMinute, NonEmptyBuckets(arrivalsByMinute))
         = Len(trips)

\* Two trips are loaded, and two of them share a bucket of a table.
C3_Witness ==
  /\ pc = "ready"
  /\ Len(trips) = 2
  /\ \E b \in 0..1439 : Len(bucketAt(departuresByMinute, b)) = 2

\* C4: with the filter -1, filterByMinute returns every loaded trip exactly
\* once and nothing else, for both tables, and the empty sequence of an
\* empty table.
C4_UnfilteredIsAllTrips ==
  \A t \in 1..2 :
    LET result == filterByMinute(Tables[t], -1)
    IN /\ Tables[t] = EmptyTable => result = << >>
       /\ pc = "ready" =>
            /\ Len(result) = Len(trips)
            /\ \A j \in 1..Len(trips) : Occurrences(result, trips[j]) = 1

\* Trips of buckets far apart are loaded and the unfiltered query is not empty.
C4_Witness ==
  /\ pc = "ready"
  /\ Len(trips) = 2
  /\ bucketAt(departuresByMinute, 440) # << >>
  /\ bucketAt(departuresByMinute, 1430) # << >>
  /\ Len(filterByMinute(departuresByMinute, -1)) = 2

\* How many trips of a sequence have the station id in the field.
CountWith(selected, field, id) ==
  Cardinality({j \in 1..Len(selected) : selected[j][field] = id})

\* The sum of a field over the first n records of a sequence.
RECURSIVE SumOfField(_, _, _)
SumOfField(records, field, n) ==
  IF n = 0 THEN 0 ELSE records[n][field] + SumOfField(records, field, n - 1)

\* Whether station objects show the counts of the trips a filter selects.
CountsMatch(stationObjects, filter) ==
  LET departureTrips == filterByMinute(departuresByMinute, filter)
      arrivalTrips == filterByMinute(arrivalsByMinute, filter)
      names == {stationObjects[i].short_name : i \in 1..Len(stationObjects)}
  IN /\ \A i \in 1..Len(stationObjects) :
          LET s == stationObjects[i]
          IN /\ s.departures
                  = CountWith(departureTrips, "start_station_id", s.short_name)
             /\ s.arrivals
                  = CountWith(arrivalTrips, "end_station_id", s.short_name)
             /\ s.totalTraffic = s.arrivals + s.departures
     /\ SumOfField(stationObjects, "departures", Len(stationObjects))
          = Cardinality({j \in 1..Len(departureTrips) :
                           departureTrips[j].start_station_id \in names})
     /\ SumOfField(stationObjects, "arrivals", Len(stationObjects))
          = Cardinality({j \in 1..Len(arrivalTrips) :
                           arrivalTrips[j].end_station_id \in names})

\* C5: after computeStationTraffic(stations, f), for the filter in force and
\* for every other filter value f, every station has as departures the number
\* of trips selected from the departure table that start at it, as arrivals
\* the number selected from the arrival table that end at it, and as
\* totalTraffic their sum (all 0 of no matching trip); a trip of an unknown
\* station id is counted for no station.
C5_StationCounts ==
  pc = "ready" =>
    /\ CountsMatch(stationsData, timeFilter)
    /\ \A f \in (-1)..1439 :
         CountsMatch(computeStationTraffic(departuresByMinute, arrivalsByMinute,
                                           stationsData, f), f)

\* Under a selected minute one station has a departure, another has no
\* traffic at all, and a selected trip ends at a station that is not known.
C5_Witness ==
  /\ pc = "ready"
  /\ timeFilter = 500
  /\ \E i \in 1..Len(stationsData) : stationsData[i].departures = 1
  /\ \E i \in 1..Len(stationsData) : stationsData[i].totalTraffic = 0
  /\ \E j \in 1..Len(filterByMinute(arrivalsByMinute, 500)) :
       filterByMinute(arrivalsByMinute, 500)[j].end_station_id = "X"

\* The largest of a non-empty set of numbers.
Largest(numbers) == CHOOSE m \in numbers : \A x \in numbers : x <= m

\* The largest total traffic the stations now show.
CurrentMaxTraffic ==
  Largest({stationsData[i].totalTraffic : i \in 1..Len(stationsData)})

\* The largest number of loaded trips that start or end at one station.
UnfilteredMaxTraffic ==
  Largest({CountWith(trips, "start_station_id", stationsData[i].short_name)
             + CountWith(trips, "end_station_id", stationsData[i].short_name) :
           i \in 1..Len(stationsData)})

\* C6 (as claimed): after every filter change the upper bound of the radius
\* scale's domain is the largest totalTraffic of the stations as computed for
\* the current filter.
C6_DomainFollowsFilter ==
  pc = "ready" => radiusDomain = <<0, CurrentMaxTraffic>>

\* C6 (amended): after every filter change the radius scale's domain is still
\* [0, the largest totalTraffic of the unfiltered data], as set once by the
\* load handler; a filter change sets only the range, [0, 25] for -1 and
\* [3, 50] for a selected minute.
C6_DomainStaysUnfiltered ==
  pc = "ready" =>
    /\ radiusDomain = <<0, UnfilteredMaxTraffic>>
    /\ radiusRange = (IF timeFilter = -1 THEN <<0, 25>> ELSE <<3, 50>>)

\* The slider was moved to a minute under which the busiest station has less
\* traffic than the busiest station of the whole day.
C6_Witness ==
  /\ pc = "ready"
  /\ sliderMoved
  /\ timeFilter # -1
  /\ CurrentMaxTraffic < radiusDomain[2]
  /\ radiusRange = <<3, 50>>

\* C7 (as claimed): a station record obtained from computeStationTraffic (the
\* records the array `stations` of the load handler refers to) keeps its
\* arrivals, departures and totalTraffic over every later call.
C7_RecordsNotMutated ==
  [][pc = "ready" =>
       \A i \in 1..Len(stations) :
         stationsData'[stations[i]] = stationsData[stations[i]]]_vars

\* Whether a row of the CSV has a timestamp that cannot be parsed.
Malformed(row) == ~row.started_at.ok \/ ~row.ended_at.ok

\* How often the trip of row i of the CSV is in a table.
RowOccurrences(table, i) ==
  Cardinality({<<b, k>> \in UNION {{b} \X (1..Len(bucketAt(table, b))) :
                                     b \in NonEmptyBuckets(table)} :
                 bucketAt(table, b)[k].row = i})

\* C8 (as claimed): a row with an unparsable timestamp raises no fault and
\* does not abort the load: it is in no bucket, so it counts for no station
\* under any filter, and every well-formed row of the same CSV is bucketed
\* once in each table.
C8_MalformedRowIsSkipped ==
  pc # "init" =>
    /\ pc = "ready"
    /\ \A i \in 1..Len(csvFile) :
         /\ RowOccurrences(departuresByMinute, i)
              = (IF Malformed(csvFile[i]) THEN 0 ELSE 1)
         /\ RowOccurrences(arrivalsByMinute, i)
              = (IF Malformed(csvFile[i]) THEN 0 ELSE 1)

\* C9 (as claimed): when every station has totalTraffic 0, every circle's
\* radius is the minimum of the current range, 0 for the filter -1 and 3 for a
\* selected minute.
C9_ZeroTrafficAtRangeMinimum ==
  (pc = "ready" /\ \A i \in 1..Len(stationsData) : stationsData[i].totalTraffic = 0)
    => \A i \in 1..Len(circles) :
         /\ circles[i].r.tSquared[1] = 0
         /\ circles[i].r.r0 = (IF timeFilter = -1 THEN 0 ELSE 3)

\* The derived fields of the station objects.
Stats(stationObjects) ==
  [i \in 1..Len(stationObjects) |->
     << stationObjects[i].short_name, stationObjects[i].arrivals,
        stationObjects[i].departures, stationObjects[i].totalTraffic >>]

\* C10: a filter change leaves both bucket tables as they were, and the
\* arrivals, departures and totalTraffic it leaves are those of applying the
\* same value to the stations as first loaded, whatever values were applied
\* before; so applying the value again changes nothing.
C10_FilterChangeIsHistoryFree ==
  [][pc = "ready" =>
       /\ departuresByMinute' = departuresByMinute
       /\ arrivalsByMinute' = arrivalsByMinute
       /\ Stats(stationsData')
            = Stats(computeStationTraffic(departuresByMinute, arrivalsByMinute,
                                          StationsJson, timeFilter'))
       /\ (timeFilter' = timeFilter => stationsData' = stationsData)]_vars

\* The slider was moved after the load handler had applied a first value, and
\* the stations show the traffic of the minute it was moved to.
C10_Witness ==
  /\ pc = "ready"
  /\ sliderMoved
  /\ timeFilter = 500
  /\ Len(trips) = 2
  /\ \E i \in 1..Len(stationsData) : stationsData[i].totalTraffic = 2

====
